---- MODULE Spec2Model ----
(***************************************************************************)
(* Model of flac-match-headers.py: reconciliation of a candidate FLAC      *)
(* container against a trusted header container (_match_flac), the         *)
(* conditional re-encode through an external encoder (_re_encode) and the  *)
(* orchestration of the tasks over a worker pool (main); and of            *)
(* transmission-get-flac-metadata.py: the throttled download of the first  *)
(* bytes of every FLAC file of a torrent (download_all_flac_headers).      *)
(***************************************************************************)
EXTENDS Integers, Sequences, FiniteSets, TLC

VARIABLES
    args,               \* parsed command line (argparse namespace)
    installed,          \* executable name -> version it reports, or Absent
    fs,                 \* file system: path -> parsed container of the file
    pc_main,            \* position of main()
    todo_inputs,        \* candidate paths the glob of line 187 has yet to yield
    todo_headers,       \* header paths the glob of line 196 has yet to yield
    trackno_to_input,   \* main's index: track number -> <<input, input_path>>
    input_path,         \* main's loop variable of line 187 / 203
    header_path,        \* main's loop variable of line 196
    tasks,              \* main's task list, each with the state of its run
    main_err,           \* exception that ended main(), or None
    main_msg,           \* the paths named by the message of line 212, or None
    \* transmission-get-flac-metadata.py, download_all_flac_headers
    transmission,       \* the torrent as the transmission daemon holds it
    pc_dl,              \* position of download_all_flac_headers
    torrent_files,      \* torrent.files() of line 62
    original_download_limit, \* line 64: <<limit>>, or <<>> for None
    file_id,            \* loop variable of line 76
    latest_file_info,   \* lines 93 and 98
    last_rpc,           \* the last two RPC calls made through client
    dl_exc              \* exception on its way out of the function, or None

\* the state of flac-match-headers.py
match_vars == <<args, installed, fs, pc_main, todo_inputs, todo_headers,
                trackno_to_input, input_path, header_path, tasks, main_err,
                main_msg>>

\* the state of transmission-get-flac-metadata.py
dl_vars == <<transmission, pc_dl, torrent_files, original_download_limit,
             file_id, latest_file_info, last_rpc, dl_exc>>

vars == <<args, installed, fs, pc_main, todo_inputs, todo_headers,
          trackno_to_input, input_path, header_path, tasks, main_err,
          main_msg, transmission, pc_dl, torrent_files,
          original_download_limit, file_id, latest_file_info, last_rpc,
          dl_exc>>

None == "None"
Absent == "Absent"

\* a File of transmission_rpc
File(name, size, completed, selected) ==
    [name |-> name, size |-> size, completed |-> completed,
     selected |-> selected]

\* download_all_flac_headers is not running
DlIdle ==
    /\ transmission = [files |-> <<>>, downloadLimit |-> 0,
                       downloadLimited |-> FALSE, status |-> "stopped"]
    /\ pc_dl = "idle"
    /\ torrent_files = <<>>
    /\ original_download_limit = <<>>
    /\ file_id = 0
    /\ latest_file_info = File(<<>>, 0, 0, FALSE)
    /\ last_rpc = <<>>
    /\ dl_exc = None

\* ----------------------------------------------------------------------
\* Bounds
\* ----------------------------------------------------------------------
MaxPadding == 2
MaxSeekPoints == 2
\* tasks handed to a pool of one worker: the least number that starmap
\* cuts into chunks of more than one task
PoolTasks == 5
\* candidates of that task list that differ from what their header asks for
MaxDeviating == 2

\* ----------------------------------------------------------------------
\* Container model (mutagen.flac.FLAC as the program uses it)
\* ----------------------------------------------------------------------
StreamInfo(md5, minb, maxb, minf, maxf) ==
    [type |-> "StreamInfo", md5_signature |-> md5,
     min_blocksize |-> minb, max_blocksize |-> maxb,
     min_framesize |-> minf, max_framesize |-> maxf]

VCFLACDict(vendor, tags) ==
    [type |-> "VCFLACDict", vendor |-> vendor, tags |-> tags]

SeekTable(seekpoints) == [type |-> "SeekTable", seekpoints |-> seekpoints]

Padding(length) == [type |-> "Padding", length |-> length]

\* A container laid out in the block order `order`; every block of one type
\* carries the same content.
MkFlac(order, si, vc, st, pad, payload) ==
    [metadata_blocks |->
        [i \in 1..Len(order) |->
            CASE order[i] = "StreamInfo" -> si
              [] order[i] = "VCFLACDict" -> vc
              [] order[i] = "SeekTable"  -> st
              [] order[i] = "Padding"    -> pad],
     payload |-> payload]

BlocksOfType(flac, type) ==
    SelectSeq(flac.metadata_blocks, LAMBDA b : b.type = type)

\* flac.tags: the Vorbis comment block of the container
TagsOf(flac) == BlocksOfType(flac, "VCFLACDict")[1]

\* list(map(type, flac.metadata_blocks))
BlockOrder(flac) ==
    [i \in 1..Len(flac.metadata_blocks) |-> flac.metadata_blocks[i].type]

\* ----------------------------------------------------------------------
\* _match_flac, lines 102-108: block-order validation
\* ----------------------------------------------------------------------
\* variant: compares the number of blocks only
validate_block_count(flac, header) ==
    IF Len(flac.metadata_blocks) # Len(header.metadata_blocks)
    THEN "StructureMismatch"
    ELSE IF BlockOrder(header)[1] # "StreamInfo" THEN "StructureMismatch"
    ELSE "ok"

validate_block_order(flac, header) ==
    LET header_block_order == BlockOrder(header)
        input_block_order == BlockOrder(flac)
    IN  IF input_block_order # header_block_order THEN "StructureMismatch"
        ELSE IF header_block_order[1] # "StreamInfo" THEN "StructureMismatch"
        ELSE "ok"

\* ----------------------------------------------------------------------
\* _check_audio_data_match, lines 60-64
\* ----------------------------------------------------------------------
\* variant: the checksums are never compared
check_audio_data_unchecked(input, header) == "ok"

check_audio_data_match(input, header) ==
    LET input_streaminfo == input.metadata_blocks[1]
        header_streaminfo == header.metadata_blocks[1]
    IN  IF input_streaminfo.md5_signature # header_streaminfo.md5_signature
        THEN "AudioDiffers"
        ELSE "ok"

\* ----------------------------------------------------------------------
\* _check_encoding_match, lines 66-87
\* ----------------------------------------------------------------------
attrs == {"min_blocksize", "max_blocksize", "min_framesize", "max_framesize"}

\* variant: seek points compared on their sample offsets only
seektable_offsets_differ(a, b) ==
    [k \in 1..Len(a.seekpoints) |-> a.seekpoints[k][1]]
        # [k \in 1..Len(b.seekpoints) |-> b.seekpoints[k][1]]

\* SeekTable.__ne__: the seek point lists differ
seektable_differs(a, b) == a.seekpoints # b.seekpoints

check_encoding_match(input, header) ==
    LET input_streaminfo == input.metadata_blocks[1]
        header_streaminfo == header.metadata_blocks[1]
        header_seektable == BlocksOfType(header, "SeekTable")
        input_seektables == BlocksOfType(input, "SeekTable")
    IN  IF TagsOf(input).vendor # TagsOf(header).vendor THEN "EncodingDiffers"
        ELSE IF \E attr \in attrs :
                    input_streaminfo[attr] # header_streaminfo[attr]
             THEN "EncodingDiffers"
        ELSE IF Len(header_seektable) > 1 THEN "MultipleSeekTables"
        \* next(...) over a container without a seek table
        ELSE IF Len(input_seektables) = 0 THEN "StopIteration"
        \* header_seektable[0] on an empty list
        ELSE IF Len(header_seektable) = 0 THEN "IndexError"
        ELSE IF seektable_differs(input_seektables[1], header_seektable[1])
             THEN "EncodingDiffers"
        ELSE "ok"

\* variant: a handler catching every exception of the first check
need_reencode_after_any(result) == result # "ok"

\* line 115: the only exception the first check's handler catches
need_reencode_after(result) == result = "EncodingDiffers"

\* ----------------------------------------------------------------------
\* _get_flac_padding, lines 89-96
\* ----------------------------------------------------------------------
get_flac_padding(flac) ==
    LET padding_blocks == BlocksOfType(flac, "Padding")
    IN  IF Len(padding_blocks) # 1
        THEN [err |-> "MultiplePaddingBlocks", length |-> 0]
        ELSE [err |-> "ok", length |-> padding_blocks[1].length]

\* ----------------------------------------------------------------------
\* _flac_version_from_vendor_string, lines 156-159
\* ----------------------------------------------------------------------
Vendor132 == "reference libFLAC 1.3.2 20170101"
Vendor121 == "reference libFLAC 1.2.1 20070917"

\* re.match(r"reference libFLAC ([\d\.]+?) ", vendor) over the vendor strings
\* of the model; None when the pattern does not match
flac_version_from_vendor_string(vendor) ==
    CASE vendor = Vendor132 -> "1.3.2"
      [] vendor = Vendor121 -> "1.2.1"
      [] OTHER -> None

\* vendor string an encoder of the given version writes
VendorOfVersion(version) ==
    CASE version = "1.3.2" -> Vendor132
      [] version = "1.2.1" -> Vendor121

\* ----------------------------------------------------------------------
\* _get_flac_executable, lines 135-154
\* ----------------------------------------------------------------------
UserFlac == "/opt/flac/bin/flac"
ExeNames == {UserFlac, "flac-1.3.2", "flac-1.2.1", "flac"}

\* f"flac-{flac_version}"
NamedExecutable(flac_version) ==
    CASE flac_version = "1.3.2" -> "flac-1.3.2"
      [] flac_version = "1.2.1" -> "flac-1.2.1"

\* variant: the asserts of lines 142 and 151 left out
version_unchecked(exe, flac_version) ==
    IF installed[exe] = Absent
    THEN [err |-> "FileNotFoundError", exe |-> None]
    ELSE [err |-> "ok", exe |-> exe]

\* subprocess.check_output([exe, "--version"]) followed by the assert
version_checked(exe, flac_version) ==
    IF installed[exe] = Absent
    THEN [err |-> "FileNotFoundError", exe |-> None]
    ELSE IF installed[exe] # flac_version
    THEN [err |-> "EncoderVersionMismatch", exe |-> None]
    ELSE [err |-> "ok", exe |-> exe]

get_flac_executable(user_provided, flac_version) ==
    IF user_provided # None
    THEN version_checked(user_provided, flac_version)
    ELSE LET named == NamedExecutable(flac_version)
             from_path == IF installed[named] # Absent THEN named ELSE "flac"
         IN  version_checked(from_path, flac_version)

\* ----------------------------------------------------------------------
\* The external encoder, run by subprocess.run at lines 173-176
\* ----------------------------------------------------------------------
\* seek table of the headers: a seek point every 4096 samples
HeaderSeekPoints ==
    [k \in 1..MaxSeekPoints |-> <<(k - 1) * 4096, (k - 1) * 9000, 4096>>]

\* seek table the encoder writes when asked for another seek point spacing
SparseSeekPoints ==
    [k \in 1..MaxSeekPoints |-> <<(k - 1) * 8192, (k - 1) * 17000, 4096>>]

\* argument strings of the model; each fixes what the encoder produces
FlacArgs == {"-8", "-5", "-8 -b 1152", "-8 -S 1s", "-8 --no-seektable",
             "-8 --no-md5-sum", "--bogus"}

\* exit codes the encoder can end with: a run with valid arguments can
\* still fail (disk full, unreadable input)
ExitCodes(flac_args) == IF flac_args = "--bogus" THEN {1} ELSE {0, 1}

\* the file the encoder writes to its -o path on success
EncoderOutput(exe, flac_args, input_file) ==
    LET in_si == input_file.metadata_blocks[1]
        md5 == IF flac_args = "-8 --no-md5-sum" THEN "md5-zero"
               ELSE in_si.md5_signature
        si == CASE flac_args = "-5" -> StreamInfo(md5, 4096, 4096, 14, 13000)
                [] flac_args = "-8 -b 1152" ->
                       StreamInfo(md5, 1152, 1152, 14, 12000)
                [] OTHER -> StreamInfo(md5, 4096, 4096, 14, 12000)
        st == IF flac_args = "-8 -S 1s"
              THEN SeekTable(SparseSeekPoints)
              ELSE SeekTable(HeaderSeekPoints)
        order == IF flac_args = "-8 --no-seektable"
                 THEN <<"StreamInfo", "VCFLACDict", "Padding">>
                 ELSE <<"StreamInfo", "SeekTable", "VCFLACDict", "Padding">>
        vc == VCFLACDict(VendorOfVersion(installed[exe]),
                         TagsOf(input_file).tags)
    IN  MkFlac(order, si, vc, st, Padding(8192), "reencoded")

\* variant: subprocess.run without check=True
check_returncode_ignored(returncode) == FALSE

\* subprocess.run(..., check=True): a non-zero exit status raises
\* CalledProcessError
check_returncode(returncode) == returncode # 0

\* what a failed encoder run may leave at its -o path
PartialFile == [metadata_blocks |-> <<>>, payload |-> "partial"]

\* ----------------------------------------------------------------------
\* _match_flac lines 123-125 and flac.save of line 131
\* ----------------------------------------------------------------------
\* flac.tags.clear(); for k, v in header.tags: flac.tags.append((k, v))
RECURSIVE append_all(_, _)
append_all(tags, more) ==
    IF more = <<>> THEN tags
    ELSE append_all(Append(tags, Head(more)), Tail(more))

\* variant: the clear() of line 123 left out
transplant_tags_merged(flac_tags, header_tags) ==
    append_all(flac_tags, header_tags)

transplant_tags(flac_tags, header_tags) == append_all(<<>>, header_tags)

WithTags(flac, tags) ==
    [flac EXCEPT !.metadata_blocks =
        [i \in 1..Len(flac.metadata_blocks) |->
            IF flac.metadata_blocks[i].type = "VCFLACDict"
            THEN [flac.metadata_blocks[i] EXCEPT !.tags = tags]
            ELSE flac.metadata_blocks[i]]]

\* flac.save(fileobj, padding): the metadata blocks of `flac` with all padding
\* grouped into one final block of the requested length, in front of the
\* audio payload already in fileobj
save(flac, fileobj, padding) ==
    [metadata_blocks |->
        SelectSeq(flac.metadata_blocks, LAMBDA b : b.type # "Padding")
            \o << Padding(padding) >>,
     payload |-> fileobj.payload]

WriteFile(path, content) ==
    [p \in DOMAIN fs \cup {path} |-> IF p = path THEN content ELSE fs[p]]

\* ----------------------------------------------------------------------
\* One run of _match_flac, lines 98-132, as the steps of task i
\* ----------------------------------------------------------------------
\* the tuple main appends at line 206 together with the state of its run
NewTask(input, in_path, header, hdr_path, out_path) ==
    [input |-> input, input_path |-> in_path, header |-> header,
     header_path |-> hdr_path, out_path |-> out_path,
     pc |-> "validate", flac |-> input, flac_path |-> in_path,
     need_reencode |-> FALSE, flac_executable |-> None, returncodes |-> <<>>,
     err |-> None, log |-> <<>>]

Logged(t, step, result) == [t EXCEPT !.log = Append(@, <<step, result>>)]

Raise(t, step, e) ==
    [Logged(t, step, e) EXCEPT !.pc = "failed", !.err = e]

MainUnchanged ==
    UNCHANGED <<args, installed, pc_main, todo_inputs, todo_headers,
                trackno_to_input, input_path, header_path, main_err, main_msg,
                dl_vars>>

\* ----------------------------------------------------------------------
\* pool.starmap(_match_flac, tasks), line 209, on the Pool(args.jobs) of
\* line 194
\* ----------------------------------------------------------------------
\* starmap cuts the task list into chunks of ceil(len / (4 * workers))
\* consecutive tasks
chunksize ==
    LET n == Len(tasks)
        q == n \div (4 * args.jobs)
    IN  IF n % (4 * args.jobs) # 0 THEN q + 1 ELSE q

\* number of the chunk of task i, counted from 0
chunk_of(i) == (i - 1) \div chunksize

Chunks == IF tasks = <<>> THEN {} ELSE 0..chunk_of(Len(tasks))

ChunkMembers(c) ==
    { i \in (c * chunksize + 1)..((c + 1) * chunksize) : i <= Len(tasks) }

Started(t) == t.log # <<>>

\* a worker has taken the chunk from the queue and begun its first task
ChunkStarted(c) == Started(tasks[c * chunksize + 1])

\* a worker runs a chunk as list(itertools.starmap(_match_flac, chunk)): the
\* tasks of the chunk in order, and the first exception ends the chunk
ChunkEnded(c) ==
    \/ \E i \in ChunkMembers(c) : tasks[i].pc = "failed"
    \/ \A i \in ChunkMembers(c) : tasks[i].pc = "done"

\* workers that are in the middle of a chunk
BusyWorkers ==
    Cardinality({ c \in Chunks : ChunkStarted(c) /\ ~ChunkEnded(c) })

\* a worker may begin task i: its predecessors in the chunk have returned,
\* and its chunk has been taken from the queue or is the next one in the
\* queue with a worker free for it
CanStart(i) ==
    /\ \A j \in ChunkMembers(chunk_of(i)) : j < i => tasks[j].pc = "done"
    /\ \/ ChunkStarted(chunk_of(i))
       \/ /\ BusyWorkers < args.jobs
          /\ \A c \in Chunks : c < chunk_of(i) => ChunkStarted(c)

\* task i is being executed by a worker, or is the one a worker begins next
Running(i) ==
    /\ pc_main = "pool" /\ i \in 1..Len(tasks)
    /\ Started(tasks[i]) \/ CanStart(i)

\* lines 102-108
ValidateBlockOrder(i) ==
    /\ i \in 1..Len(tasks) /\ tasks[i].pc = "validate" /\ Running(i)
    /\ LET t == tasks[i]
           r == validate_block_order(t.flac, t.header)
       IN  tasks' = [tasks EXCEPT ![i] =
                IF r = "ok" THEN [Logged(t, "validate", r) EXCEPT !.pc = "audio"]
                ELSE Raise(t, "validate", r)]
    /\ UNCHANGED fs /\ MainUnchanged

\* line 110
CheckAudioDataMatch(i) ==
    /\ i \in 1..Len(tasks) /\ tasks[i].pc = "audio" /\ Running(i)
    /\ LET t == tasks[i]
           r == check_audio_data_match(t.flac, t.header)
       IN  tasks' = [tasks EXCEPT ![i] =
                IF r = "ok" THEN [Logged(t, "audio", r) EXCEPT !.pc = "check"]
                ELSE Raise(t, "audio", r)]
    /\ UNCHANGED fs /\ MainUnchanged

\* lines 112-118
CheckEncodingMatch(i) ==
    /\ i \in 1..Len(tasks) /\ tasks[i].pc = "check" /\ Running(i)
    /\ LET t == tasks[i]
           r == check_encoding_match(t.flac, t.header)
       IN  tasks' = [tasks EXCEPT ![i] =
                IF r = "ok"
                THEN [Logged(t, "check", r) EXCEPT !.pc = "transplant"]
                ELSE IF need_reencode_after(r)
                THEN [Logged(t, "check", r) EXCEPT
                         !.need_reencode = TRUE, !.pc = "re_encode"]
                ELSE Raise(t, "check", r)]
    /\ UNCHANGED fs /\ MainUnchanged

\* variant of lines 165-171: without --flac-args the encoder is run with its
\* defaults
ReEncodeResolveDefaultArgs(i) ==
    /\ i \in 1..Len(tasks) /\ tasks[i].pc = "re_encode" /\ Running(i)
    /\ LET t == tasks[i]
           flac_version ==
               flac_version_from_vendor_string(TagsOf(t.header).vendor)
           exe == get_flac_executable(args.flac, flac_version)
       IN  tasks' = [tasks EXCEPT ![i] =
                IF flac_version = None
                THEN Raise(t, "resolve", "UnrecognizedVendor")
                ELSE IF exe.err # "ok" THEN Raise(t, "resolve", exe.err)
                ELSE [Logged(t, "resolve", "ok") EXCEPT
                         !.flac_executable = exe.exe, !.pc = "encode"]]
    /\ UNCHANGED fs /\ MainUnchanged

\* line 119 entering _re_encode, lines 165-171
ReEncodeResolve(i) ==
    /\ i \in 1..Len(tasks) /\ tasks[i].pc = "re_encode" /\ Running(i)
    /\ LET t == tasks[i]
           flac_version ==
               flac_version_from_vendor_string(TagsOf(t.header).vendor)
           exe == get_flac_executable(args.flac, flac_version)
       IN  tasks' = [tasks EXCEPT ![i] =
                IF flac_version = None
                THEN Raise(t, "resolve", "UnrecognizedVendor")
                ELSE IF exe.err # "ok" THEN Raise(t, "resolve", exe.err)
                ELSE IF args.flac_args = None
                THEN Raise(t, "resolve", "MissingEncoderArgs")
                ELSE [Logged(t, "resolve", "ok") EXCEPT
                         !.flac_executable = exe.exe, !.pc = "encode"]]
    /\ UNCHANGED fs /\ MainUnchanged

\* lines 173-178, then lines 119-120 of _match_flac
ReEncodeRun(i) ==
    /\ i \in 1..Len(tasks) /\ tasks[i].pc = "encode" /\ Running(i)
    /\ LET t == tasks[i] IN
       \E exit \in ExitCodes(args.flac_args) :
          IF check_returncode(exit)
          THEN /\ tasks' = [tasks EXCEPT ![i] =
                     Raise([t EXCEPT !.returncodes = Append(@, exit)],
                           "encode", "EncodeFailed")]
               /\ \/ UNCHANGED fs
                  \/ fs' = WriteFile(t.out_path, PartialFile)
          ELSE LET out == EncoderOutput(t.flac_executable, args.flac_args,
                                        fs[t.flac_path])
               IN  /\ fs' = WriteFile(t.out_path, out)
                   /\ tasks' = [tasks EXCEPT ![i] =
                         [Logged(t, "encode", "ok") EXCEPT
                             !.returncodes = Append(@, exit),
                             !.flac = out, !.flac_path = t.out_path,
                             !.pc = "recheck"]]
    /\ MainUnchanged

\* variant of line 121: a failed re-check sends the task back to the encoder
ReCheckAndRetry(i) ==
    /\ i \in 1..Len(tasks) /\ tasks[i].pc = "recheck" /\ Running(i)
    /\ LET t == tasks[i]
           r == check_encoding_match(t.flac, t.header)
       IN  tasks' = [tasks EXCEPT ![i] =
                IF r = "ok"
                THEN [Logged(t, "recheck", r) EXCEPT !.pc = "transplant"]
                ELSE [Logged(t, "recheck", r) EXCEPT !.pc = "encode"]]
    /\ UNCHANGED fs /\ MainUnchanged

\* line 121
ReCheckEncodingMatch(i) ==
    /\ i \in 1..Len(tasks) /\ tasks[i].pc = "recheck" /\ Running(i)
    /\ LET t == tasks[i]
           r == check_encoding_match(t.flac, t.header)
       IN  tasks' = [tasks EXCEPT ![i] =
                IF r = "ok"
                THEN [Logged(t, "recheck", r) EXCEPT !.pc = "transplant"]
                ELSE Raise(t, "recheck", r)]
    /\ UNCHANGED fs /\ MainUnchanged

\* lines 123-132
TransplantAndSave(i) ==
    /\ i \in 1..Len(tasks) /\ tasks[i].pc = "transplant" /\ Running(i)
    /\ LET t == tasks[i]
           flac == WithTags(t.flac, transplant_tags(TagsOf(t.flac).tags,
                                                    TagsOf(t.header).tags))
           out_bio == fs[t.flac_path]
           padding == get_flac_padding(t.header)
       IN  IF padding.err # "ok"
           THEN /\ tasks' = [tasks EXCEPT ![i] =
                      Raise([t EXCEPT !.flac = flac], "transplant", padding.err)]
                /\ UNCHANGED fs
           ELSE /\ fs' = WriteFile(t.out_path, save(flac, out_bio, padding.length))
                /\ tasks' = [tasks EXCEPT ![i] =
                      [Logged(Logged(t, "transplant", "ok"), "write", "ok")
                          EXCEPT !.flac = flac, !.pc = "done"]]
    /\ MainUnchanged

TaskNext ==
    \/ \E i \in 1..Len(tasks) : ValidateBlockOrder(i)
    \/ \E i \in 1..Len(tasks) : CheckAudioDataMatch(i)
    \/ \E i \in 1..Len(tasks) : CheckEncodingMatch(i)
    \/ \E i \in 1..Len(tasks) : ReEncodeResolve(i)
    \/ \E i \in 1..Len(tasks) : ReEncodeRun(i)
    \/ \E i \in 1..Len(tasks) : ReCheckEncodingMatch(i)
    \/ \E i \in 1..Len(tasks) : TransplantAndSave(i)

\* ----------------------------------------------------------------------
\* Inputs of one task
\* ----------------------------------------------------------------------
BlockOrders ==
    { <<"StreamInfo", "SeekTable", "VCFLACDict", "Padding">>,
      <<"StreamInfo", "VCFLACDict", "Padding">>,
      <<"StreamInfo", "SeekTable", "VCFLACDict">>,
      <<"StreamInfo", "VCFLACDict", "SeekTable", "Padding">>,
      <<"VCFLACDict", "StreamInfo", "SeekTable", "Padding">>,
      <<"StreamInfo", "SeekTable", "VCFLACDict", "Padding", "Padding">>,
      <<"StreamInfo", "SeekTable", "SeekTable", "VCFLACDict", "Padding">> }

\* block orders a candidate is tried with against a header of order ho
CandidateOrders(ho) ==
    { ho, <<"StreamInfo", "SeekTable", "VCFLACDict", "Padding">>,
          <<"StreamInfo", "VCFLACDict", "SeekTable", "Padding">> }

HeaderTags(trackno) == << <<"TITLE", "Song">>, <<"tracknumber", trackno>> >>
CandidateTags(trackno) ==
    << <<"TRACKNUMBER", trackno>>, <<"title", "song">>, <<"COMMENT", "rip">> >>

Md5s == {"md5-A", "md5-B"}
Vendors == {Vendor132, Vendor121}
MinBlockSizes == {4096, 1152}
MaxBlockSizes == {4096, 4608}
MinFrameSizes == {14, 16}
MaxFrameSizes == {12000, 13000}
\* the header's seek points, the same with one field of one seek point
\* changed, and the same without the last seek point
SeekPointLists ==
    { HeaderSeekPoints, SubSeq(HeaderSeekPoints, 1, MaxSeekPoints - 1) }
    \cup
    { [HeaderSeekPoints EXCEPT ![k][f] = @ + 1] :
        k \in 1..MaxSeekPoints, f \in 1..3 }

HeaderFlac(order, padding, tags) ==
    MkFlac(order, StreamInfo("md5-A", 4096, 4096, 14, 12000),
           VCFLACDict(Vendor132, tags), SeekTable(HeaderSeekPoints),
           Padding(padding), "header-audio")

CandidateFlac(order, si, vendor, seekpoints, tags) ==
    MkFlac(order, si, VCFLACDict(vendor, tags),
           SeekTable(seekpoints), Padding(8192), "candidate-audio")

\* encoding parameters of the candidates: all combinations
AllEncodings ==
    [vendor : Vendors, minb : MinBlockSizes, maxb : MaxBlockSizes,
     minf : MinFrameSizes, maxf : MaxFrameSizes, seekpoints : SeekPointLists]

HeaderEncoding ==
    [vendor |-> Vendor132, minb |-> 4096, maxb |-> 4096, minf |-> 14,
     maxf |-> 12000, seekpoints |-> HeaderSeekPoints]

\* encoding parameters that differ from the header's in at most one field
NearEncodings ==
    { e \in AllEncodings :
        Cardinality({f \in DOMAIN e : e[f] # HeaderEncoding[f]}) <= 1 }

Installed(user, named, plain) ==
    [e \in ExeNames |->
        CASE e = UserFlac -> user
          [] e = "flac-1.3.2" -> named
          [] e = "flac-1.2.1" -> Absent
          [] e = "flac" -> plain]

\* --flac with the executables present on the machine
ExeConfigs ==
    { [flac |-> UserFlac, installed |-> Installed(v, Absent, "1.2.1")] :
        v \in {"1.3.2", "1.2.1", Absent} }
    \cup
    { [flac |-> UserFlac, installed |-> Installed("1.2.1", "1.3.2", "1.3.2")] }
    \cup
    { [flac |-> None, installed |-> Installed(Absent, n, f)] :
        n \in {"1.3.2", Absent}, f \in {"1.3.2", "1.2.1", Absent} }

InPath(name) == <<"in", name>>
HeadersPath(name) == <<"headers", name>>

\* Path(args.out, header_path.name.replace(".part", ""))
OutPath(header_name) == <<"out", SelectSeq(header_name, LAMBDA s : s # ".part")>>

TaskInitWith(encodings) ==
    \E ho \in BlockOrders, hp \in 1..MaxPadding, md5 \in Md5s,
       e \in encodings, x \in ExeConfigs, fa \in FlacArgs \cup {None} :
      \E co \in CandidateOrders(ho) :
        LET header == HeaderFlac(ho, hp, HeaderTags("1"))
            input == CandidateFlac(co,
                        StreamInfo(md5, e.minb, e.maxb, e.minf, e.maxf),
                        e.vendor, e.seekpoints, CandidateTags("01"))
            in_path == InPath(<<"01", ".flac">>)
            hdr_path == HeadersPath(<<"01", ".flac", ".part">>)
        IN  /\ args = [flac |-> x.flac, flac_args |-> fa,
                       skip_track |-> {}, jobs |-> 1]
            /\ installed = x.installed
            /\ fs = (in_path :> input) @@ (hdr_path :> header)
            /\ pc_main = "pool"
            /\ todo_inputs = {}
            /\ todo_headers = {}
            /\ trackno_to_input = (1 :> <<input, in_path>>)
            /\ input_path = in_path
            /\ header_path = hdr_path
            /\ tasks = << NewTask(input, in_path, header, hdr_path,
                                  OutPath(hdr_path[2])) >>
            /\ main_err = None
            /\ main_msg = None
            /\ DlIdle

TaskInit == TaskInitWith(NearEncodings)

SpecTask == TaskInit /\ [][TaskNext]_vars

\* One task over every combination of encoding parameters: candidate and
\* header of the same block order and the same checksum, the right encoder
\* installed, arguments that reproduce the header's encoding
EncInit ==
    \E ho \in BlockOrders, e \in AllEncodings :
        LET header == HeaderFlac(ho, MaxPadding, HeaderTags("1"))
            input == CandidateFlac(ho,
                        StreamInfo("md5-A", e.minb, e.maxb, e.minf, e.maxf),
                        e.vendor, e.seekpoints, CandidateTags("01"))
            in_path == InPath(<<"01", ".flac">>)
            hdr_path == HeadersPath(<<"01", ".flac", ".part">>)
        IN  /\ args = [flac |-> None, flac_args |-> "-8",
                       skip_track |-> {}, jobs |-> 1]
            /\ installed = Installed(Absent, "1.3.2", "1.2.1")
            /\ fs = (in_path :> input) @@ (hdr_path :> header)
            /\ pc_main = "pool"
            /\ todo_inputs = {}
            /\ todo_headers = {}
            /\ trackno_to_input = (1 :> <<input, in_path>>)
            /\ input_path = in_path
            /\ header_path = hdr_path
            /\ tasks = << NewTask(input, in_path, header, hdr_path,
                                  OutPath(hdr_path[2])) >>
            /\ main_err = None
            /\ main_msg = None
            /\ DlIdle

SpecEnc == EncInit /\ [][TaskNext]_vars

\* ----------------------------------------------------------------------
\* main, lines 180-212
\* ----------------------------------------------------------------------
\* VCFLACDict keys are case-insensitive
LowerKey(k) ==
    CASE k = "TITLE" -> "title"
      [] k = "TRACKNUMBER" -> "tracknumber"
      [] k = "COMMENT" -> "comment"
      [] OTHER -> k

\* flac.tags[key]: the values stored under the key, in order
tag_values(flac, key) ==
    LET hits == SelectSeq(TagsOf(flac).tags, LAMBDA kv : LowerKey(kv[1]) = key)
    IN  [i \in 1..Len(hits) |-> hits[i][2]]

Digits == <<"1", "2", "3", "4", "5", "6", "7", "8", "9">>

\* int(s) over the track number strings of the model
int(s) ==
    CASE s = "01" -> 1
      [] s = "02" -> 2
      [] OTHER -> CHOOSE k \in 1..Len(Digits) : Digits[k] = s

\* int(flac.tags["tracknumber"][0])
trackno_of(flac) == int(tag_values(flac, "tracknumber")[1])

TaskUnchanged == UNCHANGED <<args, installed, fs, tasks, dl_vars>>

\* variant: the assert of line 190 left out
already_indexed_ignored(trackno) == FALSE

\* line 190: trackno in trackno_to_input
already_indexed(trackno) == trackno \in DOMAIN trackno_to_input

\* lines 187-191, one iteration; the with statement of line 194 follows the
\* last one
IndexInput ==
    /\ pc_main = "index"
    /\ \E p \in todo_inputs :
        LET input == fs[p]
            trackno == trackno_of(input)
        IN  /\ input_path' = p
            /\ todo_inputs' = todo_inputs \ {p}
            /\ IF already_indexed(trackno)
               THEN /\ main_err' = "DuplicateTrackNumber"
                    /\ pc_main' = "failed"
                    /\ UNCHANGED trackno_to_input
               ELSE /\ trackno_to_input' =
                          [n \in DOMAIN trackno_to_input \cup {trackno} |->
                              IF n = trackno THEN <<input, p>>
                              ELSE trackno_to_input[n]]
                    /\ pc_main' = IF todo_inputs' = {} THEN "build" ELSE "index"
                    /\ UNCHANGED main_err
    /\ UNCHANGED <<todo_headers, header_path, main_msg>> /\ TaskUnchanged

\* the loop of line 196 has no more headers: line 209 dispatches the tasks
Dispatch ==
    /\ pc_main = "build" /\ todo_headers = {}
    /\ pc_main' = "pool"
    /\ UNCHANGED <<todo_inputs, todo_headers, trackno_to_input, input_path,
                   header_path, main_err, main_msg>>
    /\ TaskUnchanged

\* variant: no header is skipped
skipped_never(trackno) == FALSE

\* line 200: trackno in args.skip_track
skipped(trackno) == trackno \in args.skip_track

\* variant of lines 196-206: a header without a candidate is passed over
BuildTaskSkipUnknown ==
    /\ pc_main = "build"
    /\ \E p \in todo_headers :
        LET header == fs[p]
            trackno == trackno_of(header)
        IN  /\ header_path' = p
            /\ todo_headers' = todo_headers \ {p}
            /\ IF skipped(trackno) \/ trackno \notin DOMAIN trackno_to_input
               THEN UNCHANGED <<tasks, input_path, pc_main, main_err>>
               ELSE LET found == trackno_to_input[trackno]
                    IN  /\ input_path' = found[2]
                        /\ tasks' = Append(tasks,
                              NewTask(found[1], found[2], header, p,
                                      OutPath(p[2])))
                        /\ UNCHANGED <<pc_main, main_err>>
    /\ UNCHANGED <<args, installed, fs, todo_inputs, trackno_to_input,
                   main_msg, dl_vars>>

\* lines 196-206, one iteration
BuildTask ==
    /\ pc_main = "build"
    /\ \E p \in todo_headers :
        LET header == fs[p]
            trackno == trackno_of(header)
        IN  /\ header_path' = p
            /\ todo_headers' = todo_headers \ {p}
            /\ IF skipped(trackno)
               THEN UNCHANGED <<tasks, input_path, pc_main, main_err>>
               ELSE IF trackno \notin DOMAIN trackno_to_input
               THEN /\ main_err' = "UnknownTrackNumber"
                    /\ pc_main' = "failed"
                    /\ UNCHANGED <<tasks, input_path>>
               ELSE LET found == trackno_to_input[trackno]
                    IN  /\ input_path' = found[2]
                        /\ tasks' = Append(tasks,
                              NewTask(found[1], found[2], header, p,
                                      OutPath(p[2])))
                        /\ UNCHANGED <<pc_main, main_err>>
    /\ UNCHANGED <<args, installed, fs, todo_inputs, trackno_to_input,
                   main_msg, dl_vars>>

Finished(t) == t.pc \in {"done", "failed"}

\* the tasks whose exception is the result of their chunk. StopIteration is
\* not one of them: raised inside itertools.starmap it ends the list() of the
\* chunk, which then counts as completed
pool_failures ==
    { i \in 1..Len(tasks) :
        tasks[i].err # None /\ tasks[i].err # "StopIteration" }

\* variant of lines 210-212: the handler prints the message and goes on
JoinWarnOnly ==
    /\ pc_main = "pool"
    /\ \A c \in Chunks : ChunkEnded(c)
    /\ IF pool_failures = {}
       THEN /\ pc_main' = "done"
            /\ UNCHANGED <<main_err, main_msg>>
       ELSE \E i \in pool_failures :
               IF tasks[i].err = "AudioDiffers"
               THEN /\ pc_main' = "done"
                    /\ main_msg' = <<input_path, header_path>>
                    /\ UNCHANGED main_err
               ELSE /\ pc_main' = "failed"
                    /\ main_err' = tasks[i].err
                    /\ UNCHANGED main_msg
    /\ UNCHANGED <<todo_inputs, todo_headers, trackno_to_input, input_path,
                   header_path>>
    /\ TaskUnchanged

\* lines 208-212: starmap returns, or raises the exception of a failed
\* chunk, once every chunk has ended
Join ==
    /\ pc_main = "pool"
    /\ \A c \in Chunks : ChunkEnded(c)
    /\ IF pool_failures = {}
       THEN /\ pc_main' = "done"
            /\ UNCHANGED <<main_err, main_msg>>
       ELSE \E i \in pool_failures :
               /\ pc_main' = "failed"
               \* lines 210-212: the handler names main's own loop variables
               /\ IF tasks[i].err = "AudioDiffers"
                  THEN /\ main_err' = "AssertionError"
                       /\ main_msg' = <<input_path, header_path>>
                  ELSE /\ main_err' = tasks[i].err
                       /\ UNCHANGED main_msg
    /\ UNCHANGED <<todo_inputs, todo_headers, trackno_to_input, input_path,
                   header_path>>
    /\ TaskUnchanged

CandidateNames == { <<"01", ".flac">>, <<"02", ".flac">> }
\* names matching *.flac.part, one of them with the marker twice
HeaderNames ==
    { <<"01", ".flac", ".part">>, <<"02", ".flac", ".part">>,
      <<"01", ".part", ".flac", ".part">> }

\* the headers directories main is run on
HeaderDirs ==
    { {},
      { <<"01", ".flac", ".part">> },
      { <<"02", ".flac", ".part">> },
      { <<"01", ".flac", ".part">>, <<"02", ".flac", ".part">> },
      { <<"01", ".flac", ".part">>, <<"01", ".part", ".flac", ".part">> } }
TrackNumberStrings == {"1", "01", "2"}

StandardOrder == <<"StreamInfo", "SeekTable", "VCFLACDict", "Padding">>

\* the candidate files main is run on: matching the header, encoded with
\* another frame size bound, holding other audio
MainCandidates ==
    { CandidateFlac(StandardOrder, si, Vendor132, HeaderSeekPoints,
                    CandidateTags(tn)) :
        si \in { StreamInfo("md5-A", 4096, 4096, 14, 12000),
                 StreamInfo("md5-A", 4096, 4096, 14, 13000),
                 StreamInfo("md5-B", 4096, 4096, 14, 12000) },
        tn \in TrackNumberStrings }

MainHeaders ==
    { HeaderFlac(StandardOrder, MaxPadding, HeaderTags(tn)) : tn \in {"1", "2"} }

MainExeConfigs ==
    { [flac |-> None, flac_args |-> fa,
       installed |-> Installed(Absent, "1.3.2", "1.2.1")] :
          fa \in {"-8", "-5", None} }
    \cup
    { [flac |-> None, flac_args |-> "-8",
       installed |-> Installed(Absent, Absent, "1.2.1")] }

Init ==
    \E cs \in SUBSET CandidateNames,
       hs \in HeaderDirs,
       x \in MainExeConfigs, skip \in {{}, {1}} :
      \E cf \in [cs -> MainCandidates], hf \in [hs -> MainHeaders] :
        /\ args = [flac |-> x.flac, flac_args |-> x.flac_args,
                   skip_track |-> skip, jobs |-> 2]
        /\ installed = x.installed
        /\ fs = [p \in {InPath(n) : n \in cs} \cup {HeadersPath(n) : n \in hs}
                    |-> IF p[1] = "in" THEN cf[p[2]] ELSE hf[p[2]]]
        /\ pc_main = IF cs = {} THEN "build" ELSE "index"
        /\ todo_inputs = {InPath(n) : n \in cs}
        /\ todo_headers = {HeadersPath(n) : n \in hs}
        /\ trackno_to_input = <<>>
        /\ input_path = None
        /\ header_path = None
        /\ tasks = <<>>
        /\ main_err = None
        /\ main_msg = None
        /\ DlIdle

Next ==
    \/ IndexInput
    \/ BuildTask
    \/ Dispatch
    \/ Join
    \/ TaskNext

Spec == Init /\ [][Next]_vars

\* ----------------------------------------------------------------------
\* The pool of lines 208-212 with one worker (--jobs 1) and a task list
\* long enough for chunks of more than one task
\* ----------------------------------------------------------------------
TwoPaddings == <<"StreamInfo", "SeekTable", "VCFLACDict", "Padding", "Padding">>
SwappedOrder == <<"StreamInfo", "VCFLACDict", "SeekTable", "Padding">>

\* --flac-args and the installed encoders, with the block orders of the
\* headers and of the first candidate
PoolConfigs ==
    { [x |-> x, header |-> StandardOrder, first |-> StandardOrder] :
        x \in MainExeConfigs }
    \cup
    { [x |-> x, header |-> o.header, first |-> o.first] :
        x \in { [flac |-> None, flac_args |-> "-8",
                 installed |-> Installed(Absent, "1.3.2", "1.2.1")] },
        o \in { [header |-> StandardOrder, first |-> SwappedOrder],
                [header |-> TwoPaddings, first |-> TwoPaddings] } }

\* stream descriptor of a candidate that matches its header, and the ones
\* of candidates encoded with another frame size bound and holding other
\* audio
MatchingStreamInfo == StreamInfo("md5-A", 4096, 4096, 14, 12000)

PoolStreamInfos ==
    { MatchingStreamInfo,
      StreamInfo("md5-A", 4096, 4096, 14, 13000),
      StreamInfo("md5-B", 4096, 4096, 14, 12000) }

\* the stream descriptors of the candidates of a task list
PoolCandidates ==
    { si \in [1..PoolTasks -> PoolStreamInfos] :
        Cardinality({ k \in 1..PoolTasks : si[k] # MatchingStreamInfo })
            <= MaxDeviating }

PoolInit ==
    \E o \in PoolConfigs, si \in PoolCandidates :
        LET x == o.x
            in_path(k) == InPath(<<Digits[k], ".flac">>)
            hdr_path(k) == HeadersPath(<<Digits[k], ".flac", ".part">>)
            header(k) == HeaderFlac(o.header, MaxPadding, HeaderTags(Digits[k]))
            input(k) == CandidateFlac(IF k = 1 THEN o.first ELSE o.header,
                                      si[k], Vendor132, HeaderSeekPoints,
                                      CandidateTags(Digits[k]))
        IN  /\ args = [flac |-> x.flac, flac_args |-> x.flac_args,
                       skip_track |-> {}, jobs |-> 1]
            /\ installed = x.installed
            /\ fs = [p \in {in_path(k) : k \in 1..PoolTasks}
                            \cup {hdr_path(k) : k \in 1..PoolTasks} |->
                        IF p[1] = "in" THEN input(int(p[2][1]))
                        ELSE header(int(p[2][1]))]
            /\ pc_main = "pool"
            /\ todo_inputs = {}
            /\ todo_headers = {}
            /\ trackno_to_input =
                   [k \in 1..PoolTasks |-> <<input(k), in_path(k)>>]
            /\ input_path = in_path(PoolTasks)
            /\ header_path = hdr_path(PoolTasks)
            /\ tasks = [k \in 1..PoolTasks |->
                           NewTask(input(k), in_path(k), header(k),
                                   hdr_path(k), OutPath(hdr_path(k)[2]))]
            /\ main_err = None
            /\ main_msg = None
            /\ DlIdle

PoolNext ==
    \/ Join
    \/ TaskNext

SpecPool == PoolInit /\ [][PoolNext]_vars

\* ----------------------------------------------------------------------
\* Vocabulary of the properties
\* ----------------------------------------------------------------------
TaskIds == 1..Len(tasks)

\* the step was executed by the task, with the given outcome
Did(t, step, result) == \E k \in 1..Len(t.log) : t.log[k] = <<step, result>>

\* the step was executed by the task
Ran(t, step) == \E k \in 1..Len(t.log) : t.log[k][1] = step

Exists(path) == path \in DOMAIN fs

\* the stream descriptor and the seek tables of a container, by block type
StreamInfoOf(flac) == BlocksOfType(flac, "StreamInfo")[1]
SeekTablesOf(flac) == BlocksOfType(flac, "SeekTable")

SameChecksum(a, b) ==
    StreamInfoOf(a).md5_signature = StreamInfoOf(b).md5_signature

SameSizeBounds(a, b) ==
    /\ StreamInfoOf(a).min_blocksize = StreamInfoOf(b).min_blocksize
    /\ StreamInfoOf(a).max_blocksize = StreamInfoOf(b).max_blocksize
    /\ StreamInfoOf(a).min_framesize = StreamInfoOf(b).min_framesize
    /\ StreamInfoOf(a).max_framesize = StreamInfoOf(b).max_framesize

SameVendor(a, b) == TagsOf(a).vendor = TagsOf(b).vendor

\* two seek tables agree on every field of every seek point
SameSeekPoints(x, y) ==
    /\ Len(x.seekpoints) = Len(y.seekpoints)
    /\ \A k \in 1..Len(x.seekpoints) : \A f \in 1..3 :
          x.seekpoints[k][f] = y.seekpoints[k][f]

SameSeekTables(a, b) ==
    /\ Len(SeekTablesOf(a)) = Len(SeekTablesOf(b))
    /\ \A k \in 1..Len(SeekTablesOf(a)) :
          SameSeekPoints(SeekTablesOf(a)[k], SeekTablesOf(b)[k])

SameEncoding(a, b) ==
    SameVendor(a, b) /\ SameSizeBounds(a, b) /\ SameSeekTables(a, b)

StructureValid(t) ==
    /\ BlockOrder(t.input) = BlockOrder(t.header)
    /\ BlockOrder(t.header)[1] = "StreamInfo"

\* ----------------------------------------------------------------------
\* C1: whatever audio payload lies at a task's output path belongs to a
\* container whose encoding check against the header has passed: the
\* candidate's payload after a passed first check, the encoder's payload
\* after a passed re-check. The encoder writes its output to the output
\* path before line 121 checks it, so this does not hold.
\* ----------------------------------------------------------------------
C1_OutputPayloadVerified ==
    \A i \in TaskIds :
        LET t == tasks[i] IN
        Exists(t.out_path) =>
            \/ /\ fs[t.out_path].payload = t.input.payload
               /\ Did(t, "check", "ok")
            \/ /\ fs[t.out_path].payload = "reencoded"
               /\ Did(t, "recheck", "ok")

\* ----------------------------------------------------------------------
\* C2: once block order and checksum have been accepted, _re_encode is
\* entered exactly when the first encoding check raised EncodingDiffersError,
\* and never for a candidate whose vendor string, size bounds and seek tables
\* equal the header's.
\* ----------------------------------------------------------------------
C2_ReencodeIffEncodingDiffers ==
    \A i \in TaskIds :
        LET t == tasks[i] IN
        /\ Ran(t, "resolve") => Did(t, "check", "EncodingDiffers")
        /\ (Did(t, "check", "EncodingDiffers") /\ t.pc # "re_encode")
               => Ran(t, "resolve")
        /\ (Did(t, "audio", "ok") /\ SameEncoding(t.input, t.header))
               => (~Ran(t, "resolve") /\ ~Ran(t, "encode"))

C2_Witness ==
    \E i \in TaskIds :
        /\ Did(tasks[i], "check", "EncodingDiffers")
        /\ Ran(tasks[i], "encode")

\* ----------------------------------------------------------------------
\* C3 as stated: a task whose candidate and header carry different
\* checksums ends with AudioDiffers. A task whose block orders differ as
\* well ends at the block-order validation instead.
\* ----------------------------------------------------------------------
C3_ChecksumMismatchFailsWithAudioDiffers ==
    \A i \in TaskIds :
        LET t == tasks[i] IN
        (Finished(t) /\ ~SameChecksum(t.input, t.header))
            => t.err = "AudioDiffers"

\* C3 amended: a task that passed block-order validation and whose checksums
\* differ fails with AudioDiffers at the checksum comparison, and nothing
\* runs after it: no encoding check, no re-encode, no tag or padding change,
\* no file at the output path.
C3_AudioDiffersShortCircuits ==
    \A i \in TaskIds :
        LET t == tasks[i] IN
        (StructureValid(t) /\ ~SameChecksum(t.input, t.header)
            /\ t.pc \notin {"validate", "audio"})
            => /\ t.pc = "failed"
               /\ t.err = "AudioDiffers"
               /\ t.log = << <<"validate", "ok">>, <<"audio", "AudioDiffers">> >>
               /\ t.flac = t.input
               /\ ~Exists(t.out_path)

C3_Witness ==
    \E i \in TaskIds :
        /\ tasks[i].err = "AudioDiffers"
        /\ ~SameChecksum(tasks[i].input, tasks[i].header)

\* ----------------------------------------------------------------------
\* C4: a task that completed left at its output path a container with the
\* header's tags, padding length, checksum and encoding parameters. The
\* checksum of a re-encoded container is never compared with the header's,
\* so this does not hold.
\* ----------------------------------------------------------------------
C4_CompletedOutputMatchesHeader ==
    \A i \in TaskIds :
        LET t == tasks[i] IN
        t.pc = "done" =>
            /\ Exists(t.out_path)
            /\ LET out == fs[t.out_path] IN
               /\ TagsOf(out).tags = TagsOf(t.header).tags
               /\ BlocksOfType(out, "Padding")
                      = << Padding(BlocksOfType(t.header, "Padding")[1].length) >>
               /\ SameChecksum(out, t.header)
               /\ SameEncoding(out, t.header)

\* ----------------------------------------------------------------------
\* C5: block-order validation is the first step of a task; when the block
\* type lists differ or the first block is not the stream descriptor the
\* task fails there with StructureMismatch: no checksum comparison, no
\* encoding check, no re-encode, no repair of the candidate, no output.
\* ----------------------------------------------------------------------
C5_BlockOrderValidatedFirst ==
    \A i \in TaskIds :
        LET t == tasks[i] IN
        /\ t.log # <<>> => t.log[1][1] = "validate"
        /\ (~StructureValid(t) /\ t.pc # "validate")
              => /\ t.pc = "failed"
                 /\ t.err = "StructureMismatch"
                 /\ t.log = << <<"validate", "StructureMismatch">> >>
                 /\ t.flac = t.input
                 /\ ~Exists(t.out_path)

C5_Witness ==
    \E i \in TaskIds :
        /\ tasks[i].err = "StructureMismatch"
        /\ BlockOrder(tasks[i].input) # BlockOrder(tasks[i].header)
        /\ ~SameChecksum(tasks[i].input, tasks[i].header)

\* ----------------------------------------------------------------------
\* C6: a task runs the encoder at most once; when the re-check of the
\* encoder's output raises EncodingDiffersError the task has failed with
\* EncodingDiffers, the re-check is its last step, and neither tags nor
\* padding were transplanted.
\* ----------------------------------------------------------------------
EncoderRuns(t) == Cardinality({k \in 1..Len(t.log) : t.log[k][1] = "encode"})

C7_TransplantKeepsPayload ==
    \A i \in TaskIds :
        LET t == tasks[i] IN
        (t.pc = "done" /\ SameChecksum(t.input, t.header)
            /\ SameEncoding(t.input, t.header))
            => /\ Exists(t.out_path)
               /\ LET out == fs[t.out_path] IN
                  /\ TagsOf(out).tags = TagsOf(t.header).tags
                  /\ BlocksOfType(out, "Padding")
                        = << Padding(BlocksOfType(t.header, "Padding")[1].length) >>
                  /\ out.payload = t.input.payload
                  /\ out.payload = fs[t.input_path].payload

C7_Witness ==
    \E i \in TaskIds :
        /\ tasks[i].pc = "done"
        /\ SameChecksum(tasks[i].input, tasks[i].header)
        /\ SameEncoding(tasks[i].input, tasks[i].header)
        /\ TagsOf(tasks[i].input).tags # TagsOf(tasks[i].header).tags
        /\ BlocksOfType(tasks[i].input, "Padding")
              # BlocksOfType(tasks[i].header, "Padding")

\* ----------------------------------------------------------------------
\* C8: against a header without a seek table (the candidate then has none
\* either) the encoding check passes exactly when vendor string and size
\* bounds are equal, and otherwise raises EncodingDiffersError, never
\* anything else. The check reads the candidate's seek table with next()
\* whether or not the header has one, so this does not hold.
\* ----------------------------------------------------------------------
C8_CheckWithoutSeekTable ==
    \A i \in TaskIds :
        LET t == tasks[i] IN
        (SeekTablesOf(t.header) = <<>> /\ SeekTablesOf(t.input) = <<>>
            /\ Ran(t, "check"))
            => IF SameVendor(t.input, t.header) /\ SameSizeBounds(t.input, t.header)
               THEN Did(t, "check", "ok")
               ELSE Did(t, "check", "EncodingDiffers")

\* ----------------------------------------------------------------------
\* C9: for a candidate and a header with one seek table each, the encoding
\* check raises EncodingDiffersError exactly when the vendor string, one of
\* the four size bounds or some field of some seek point differs, and
\* passes otherwise.
\* ----------------------------------------------------------------------
C9_AnyFieldDifferenceFails ==
    \A i \in TaskIds :
        LET t == tasks[i] IN
        (Len(SeekTablesOf(t.header)) = 1 /\ Len(SeekTablesOf(t.input)) = 1
            /\ Ran(t, "check"))
            => IF SameEncoding(t.input, t.header)
               THEN Did(t, "check", "ok")
               ELSE Did(t, "check", "EncodingDiffers")

\* a candidate that differs from the header in one field of one seek point
\* other than its sample offset, and in nothing else
C9_Witness ==
    \E i \in TaskIds :
        LET t == tasks[i] IN
        /\ Did(t, "check", "EncodingDiffers")
        /\ Len(SeekTablesOf(t.header)) = 1 /\ Len(SeekTablesOf(t.input)) = 1
        /\ SameVendor(t.input, t.header) /\ SameSizeBounds(t.input, t.header)
        /\ ~seektable_offsets_differ(SeekTablesOf(t.input)[1],
                                     SeekTablesOf(t.header)[1])

\* ----------------------------------------------------------------------
\* C10: when two candidates declare the same track number, main fails with
\* DuplicateTrackNumber while it builds its index: no task has been built,
\* none is dispatched, and no file is written to the output directory.
\* ----------------------------------------------------------------------
DuplicateTrackNumbers ==
    \E p, q \in {x \in DOMAIN fs : x[1] = "in"} :
        p # q /\ trackno_of(fs[p]) = trackno_of(fs[q])

NoOutputWritten == \A p \in DOMAIN fs : p[1] # "out"

C10_DuplicateTrackNumberIsFatal ==
    /\ pc_main = "index" => (tasks = <<>> /\ NoOutputWritten)
    /\ (DuplicateTrackNumbers /\ pc_main # "index")
          => /\ pc_main = "failed"
             /\ main_err = "DuplicateTrackNumber"
    /\ main_err = "DuplicateTrackNumber"
          => /\ tasks = <<>>
             /\ NoOutputWritten
             /\ todo_headers = {x \in DOMAIN fs : x[1] = "headers"}

C10_Witness ==
    /\ main_err = "DuplicateTrackNumber"
    /\ DuplicateTrackNumbers
    /\ todo_headers # {}

\* ----------------------------------------------------------------------
\* Vocabulary of the properties of main
\* ----------------------------------------------------------------------
HeaderFiles == { p \in DOMAIN fs : p[1] = "headers" }
CandidateFiles == { p \in DOMAIN fs : p[1] = "in" }
OutputFiles == { p \in DOMAIN fs : p[1] = "out" }

\* the header's track number is in the list given with --skip-track
InSkipList(p) == trackno_of(fs[p]) \in args.skip_track

\* some candidate file carries the header's track number
HasCandidate(p) ==
    \E c \in CandidateFiles : trackno_of(fs[c]) = trackno_of(fs[p])

\* the loop of line 196 has taken up the header
Visited(p) == pc_main # "index" /\ p \notin todo_headers

UnmatchedHeaders ==
    { p \in HeaderFiles : ~InSkipList(p) /\ ~HasCandidate(p) }

TasksOf(p) == { i \in TaskIds : tasks[i].header_path = p }

\* ----------------------------------------------------------------------
\* C11: a run with a header that is not skipped and whose track number no
\* candidate carries never dispatches a task and writes no output, and when
\* the loop that builds the tasks takes up such a header main ends there
\* with UnknownTrackNumber (the KeyError of line 203). The only other way
\* such a run ends is the DuplicateTrackNumber of the indexing loop, before
\* any task is built.
\* ----------------------------------------------------------------------
C11_UnknownTrackNumberWhileBuilding ==
    UnmatchedHeaders # {} =>
        /\ pc_main \notin {"pool", "done"}
        /\ \A i \in TaskIds : ~Started(tasks[i])
        /\ NoOutputWritten
        /\ pc_main = "failed" =>
               main_err \in {"UnknownTrackNumber", "DuplicateTrackNumber"}
        /\ \A p \in UnmatchedHeaders :
               Visited(p) => /\ pc_main = "failed"
                             /\ main_err = "UnknownTrackNumber"
                             /\ header_path = p

\* a task had been built when the header without candidate came up
C11_Witness ==
    /\ main_err = "UnknownTrackNumber"
    /\ header_path \in UnmatchedHeaders
    /\ Len(tasks) = 1
    /\ ~Started(tasks[1])

\* ----------------------------------------------------------------------
\* C12: no task is ever built for a header whose track number is in the
\* skip list, and every output file is the output of a task of a header
\* that is not skipped; UnknownTrackNumber is only ever raised for a header
\* that is not skipped; a header that the loop has taken up, that is not
\* skipped and has a candidate has exactly one task, and no header ever
\* has more than one.
\* ----------------------------------------------------------------------
C12_SkipPrecedesLookup ==
    /\ \A p \in HeaderFiles :
          /\ InSkipList(p) => TasksOf(p) = {}
          /\ Cardinality(TasksOf(p)) <= 1
          /\ (Visited(p) /\ ~InSkipList(p) /\ HasCandidate(p))
                 => Cardinality(TasksOf(p)) = 1
    /\ \A i \in TaskIds :
          /\ tasks[i].header_path \in HeaderFiles
          /\ ~InSkipList(tasks[i].header_path)
    /\ \A q \in OutputFiles :
          \E i \in TaskIds : tasks[i].out_path = q /\ Started(tasks[i])
    /\ main_err = "UnknownTrackNumber" => ~InSkipList(header_path)

\* a skipped header without candidate in a run whose other header was
\* matched and written
C12_Witness ==
    /\ pc_main = "done"
    /\ \E p \in HeaderFiles : InSkipList(p) /\ ~HasCandidate(p)
    /\ \E i \in TaskIds : tasks[i].pc = "done" /\ Exists(tasks[i].out_path)

\* ----------------------------------------------------------------------
\* Vocabulary of the properties of _re_encode
\* ----------------------------------------------------------------------
\* the encoder version named by the header's vendor string
HeaderVersion(t) == flac_version_from_vendor_string(TagsOf(t.header).vendor)

\* the executable found on the search path: flac-<version> when there is
\* one, flac otherwise
Probed(v) ==
    IF installed[NamedExecutable(v)] # Absent THEN NamedExecutable(v) ELSE "flac"

SearchPath == ExeNames \ {UserFlac}

\* an encoder of the header's version is resolved
Resolves(t) ==
    /\ HeaderVersion(t) # None
    /\ get_flac_executable(args.flac, HeaderVersion(t)).err = "ok"

\* ----------------------------------------------------------------------
\* C13 as stated: a task whose first encoding check failed, run without
\* --flac-args, ends with MissingEncoderArgs. It does not when no encoder of
\* the header's version is resolved: lines 165-166 come before the assert
\* of line 169.
\* ----------------------------------------------------------------------
C13_MissingArgsAlwaysReported ==
    \A i \in TaskIds :
        LET t == tasks[i] IN
        (Did(t, "check", "EncodingDiffers") /\ args.flac_args = None
            /\ Finished(t))
            => t.err = "MissingEncoderArgs"

\* ----------------------------------------------------------------------
\* C13, amended: a task whose first encoding check failed, run without
\* --flac-args, never runs the encoder to encode, transplants nothing and
\* leaves no file at the output path; it fails in _re_encode, with
\* MissingEncoderArgs when an encoder of the header's version was resolved
\* and with the error of that resolution otherwise.
\* ----------------------------------------------------------------------
C13_NoEncodeWithoutArgs ==
    \A i \in TaskIds :
        LET t == tasks[i] IN
        (Did(t, "check", "EncodingDiffers") /\ args.flac_args = None) =>
            /\ ~Ran(t, "encode") /\ t.returncodes = <<>>
            /\ ~Ran(t, "recheck")
            /\ ~Ran(t, "transplant") /\ ~Ran(t, "write")
            /\ ~Exists(t.out_path)
            /\ t.pc \in {"re_encode", "failed"}
            /\ t.pc = "failed" =>
                  /\ Resolves(t) => t.err = "MissingEncoderArgs"
                  /\ ~Resolves(t) =>
                        t.err \in {"EncoderVersionMismatch", "FileNotFoundError",
                                   "UnrecognizedVendor"}

C13_Witness ==
    \E i \in TaskIds :
        /\ Did(tasks[i], "check", "EncodingDiffers")
        /\ args.flac_args = None
        /\ Resolves(tasks[i])
        /\ tasks[i].err = "MissingEncoderArgs"

\* ----------------------------------------------------------------------
\* C14 as stated: the task fails with EncoderVersionMismatch when the
\* executable given with --flac reports another version, and when no
\* executable on the search path reports the header's version; no encode
\* runs. With neither flac-<version> nor flac on the search path the
\* failure is the FileNotFoundError of check_output, line 148.
\* ----------------------------------------------------------------------
C14_NoMatchingExecutableIsVersionMismatch ==
    \A i \in TaskIds :
        LET t == tasks[i]
            v == HeaderVersion(t)
        IN  Ran(t, "resolve") =>
            /\ (args.flac # None /\ installed[args.flac] \notin {Absent, v})
                   => (t.err = "EncoderVersionMismatch" /\ ~Ran(t, "encode"))
            /\ (args.flac = None /\ \A e \in SearchPath : installed[e] # v)
                   => (t.err = "EncoderVersionMismatch" /\ ~Ran(t, "encode"))

\* ----------------------------------------------------------------------
\* C14, amended: the encoder is only ever run from an executable that
\* reports the version of the header's vendor string. The task fails with
\* EncoderVersionMismatch, and no encode runs, when the executable given
\* with --flac reports another version (whatever is on the search path) and
\* when the executable found on the search path (flac-<version>, else flac)
\* reports another version; when neither is on the search path the task
\* fails with FileNotFoundError, and no encode runs either.
\* ----------------------------------------------------------------------
C14_EncodeOnlyWithHeaderVersion ==
    \A i \in TaskIds :
        LET t == tasks[i]
            v == HeaderVersion(t)
        IN  /\ Ran(t, "encode") =>
                  /\ t.flac_executable # None
                  /\ installed[t.flac_executable] = v
                  /\ args.flac # None => t.flac_executable = args.flac
            /\ Ran(t, "resolve") =>
                  /\ (args.flac # None
                        /\ installed[args.flac] \notin {Absent, v})
                       => (t.err = "EncoderVersionMismatch"
                             /\ ~Ran(t, "encode"))
                  /\ (args.flac = None
                        /\ installed[Probed(v)] \notin {Absent, v})
                       => (t.err = "EncoderVersionMismatch"
                             /\ ~Ran(t, "encode"))
                  /\ (args.flac = None /\ installed[Probed(v)] = Absent)
                       => (t.err = "FileNotFoundError" /\ ~Ran(t, "encode"))
                  /\ (args.flac = None
                        /\ \A e \in SearchPath : installed[e] # v)
                       => (t.err \in {"EncoderVersionMismatch",
                                      "FileNotFoundError"}
                             /\ ~Ran(t, "encode"))

\* --flac names an encoder of another version while the search path has the
\* right one: no fallback
C14_Witness ==
    /\ args.flac # None
    /\ installed[args.flac] = "1.2.1"
    /\ installed["flac"] = "1.3.2"
    /\ \E i \in TaskIds :
          /\ HeaderVersion(tasks[i]) = "1.3.2"
          /\ tasks[i].err = "EncoderVersionMismatch"
          /\ ~Ran(tasks[i], "encode")

\* ----------------------------------------------------------------------
\* C15: once starmap has returned or raised, every task of the list has
\* been executed to its end. With a chunk of more than one task this does
\* not hold: the exception of a task ends its chunk, and the tasks behind
\* it in the chunk are never executed.
\* ----------------------------------------------------------------------
C15_EveryDispatchedTaskExecuted ==
    pc_main \in {"done", "failed"} =>
        \A i \in TaskIds : Finished(tasks[i])

\* ----------------------------------------------------------------------
\* C16: when main has ended after the pool, every failed task has been
\* reported with its own candidate path, its own header path and its error
\* kind. main has one report, the message of line 212, made for
\* AudioDiffers only and from the loop variables of lines 187 and 196.
\* ----------------------------------------------------------------------
Reported(t) ==
    /\ t.err = "AudioDiffers"
    /\ main_err = "AssertionError"
    /\ main_msg = <<t.input_path, t.header_path>>

C16_EveryFailedTaskReported ==
    pc_main = "failed" =>
        \A i \in TaskIds : tasks[i].pc = "failed" => Reported(tasks[i])

\* ----------------------------------------------------------------------
\* C17: the tasks of a run have pairwise distinct output paths, no output
\* path is the candidate or header file of a task, and the output name is
\* the header's name without its final .part. Line 204 removes every
\* ".part" of the name, so 01.flac.part and 01.part.flac.part are both
\* written to 01.flac.
\* ----------------------------------------------------------------------
C17_OutputPathsDistinct ==
    \A i \in TaskIds :
        LET name == tasks[i].header_path[2] IN
        /\ tasks[i].out_path = <<"out", SubSeq(name, 1, Len(name) - 1)>>
        /\ \A j \in TaskIds :
              /\ i # j => tasks[i].out_path # tasks[j].out_path
              /\ tasks[i].out_path # tasks[j].input_path
              /\ tasks[i].out_path # tasks[j].header_path

\* ----------------------------------------------------------------------
\* C18: main never ends normally when a task has failed with one of the
\* fatal error kinds: once starmap is over it has ended with an exception
\* (exit status 1). A task that raised AudioDiffers, or whose re-encoded
\* file raised EncodingDiffers, has failed with that error, and a task
\* whose first encoding check failed never completes unless the re-check
\* of its re-encoded file passed.
\* ----------------------------------------------------------------------
FatalKinds ==
    {"StructureMismatch", "AudioDiffers", "EncodingDiffers",
     "EncoderVersionMismatch", "MissingEncoderArgs", "EncodeFailed",
     "MultiplePaddingBlocks"}

C18_FailedTaskFailsTheRun ==
    /\ (\E i \in TaskIds : tasks[i].err \in FatalKinds) =>
          /\ pc_main \in {"pool", "failed"}
          /\ pc_main = "failed" => main_err \in FatalKinds \cup {"AssertionError"}
    /\ \A i \in TaskIds :
          LET t == tasks[i] IN
          /\ Did(t, "audio", "AudioDiffers") =>
                (t.pc = "failed" /\ t.err = "AudioDiffers")
          /\ Did(t, "recheck", "EncodingDiffers") =>
                (t.pc = "failed" /\ t.err = "EncodingDiffers")
          /\ (Did(t, "check", "EncodingDiffers") /\ t.pc = "done") =>
                Did(t, "recheck", "ok")

\* two tasks of different chunks have failed, one with each of the two
\* errors, and main has ended with an exception
C18_Witness ==
    /\ pc_main = "failed"
    /\ \E i, j \in TaskIds :
          /\ tasks[i].err = "AudioDiffers"
          /\ tasks[j].err = "EncodingDiffers"

\* ----------------------------------------------------------------------
\* C19: a task writes its output path at most once. On the re-encode path
\* it is written twice: by the encoder (line 174, -fo out_path) and again
\* by line 132.
\* ----------------------------------------------------------------------
WritesOf(t) ==
    Cardinality({ k \in 1..Len(t.log) :
                    t.log[k] \in { <<"encode", "ok">>, <<"write", "ok">> } })

C19_OutputWrittenAtMostOnce ==
    \A i \in TaskIds : WritesOf(tasks[i]) <= 1

\* ----------------------------------------------------------------------
\* C20: a task whose encoder run ended with a non-zero exit status has
\* failed with EncodeFailed (CalledProcessError): the output of the encoder
\* was not parsed (the task still holds the candidate), the re-check did
\* not run, and nothing was transplanted or saved; what is at the output
\* path, if anything, is what the encoder left there.
\* ----------------------------------------------------------------------
C20_EncodeFailedEndsTask ==
    \A i \in TaskIds :
        LET t == tasks[i] IN
        (\E k \in 1..Len(t.returncodes) : t.returncodes[k] # 0) =>
            /\ t.pc = "failed" /\ t.err = "EncodeFailed"
            /\ Len(t.returncodes) = 1
            /\ t.flac = t.input /\ t.flac_path = t.input_path
            /\ ~Ran(t, "recheck")
            /\ ~Ran(t, "transplant") /\ ~Ran(t, "write")
            /\ Exists(t.out_path) => fs[t.out_path] = PartialFile

C20_Witness ==
    \E i \in TaskIds :
        /\ tasks[i].returncodes = <<1>>
        /\ tasks[i].err = "EncodeFailed"
        /\ Exists(tasks[i].out_path)

(***************************************************************************)
(* transmission-get-flac-metadata.py: download_all_flac_headers.           *)
(*                                                                         *)
(* The torrent lives in the transmission daemon; the function reaches it   *)
(* through the RPC calls of client.  Any RPC call can fail, and then it    *)
(* raises and leaves the torrent as it was.                                *)
(***************************************************************************)

\* line 94: the loop polls until this many bytes of the file are there
HeaderBytes == 500000

\* line 85: the download limit (KB/s) while the headers are fetched
TemporaryLimit == 50

\* the files of a torrent: at most MaxFiles of them
MaxFiles == 2

\* what the daemon downloads of a file between two looks at it
PieceLength == 250000

FileNames == {<<"01", ".flac">>, <<"cover", ".jpg">>}
FileSizes == {300000, 750000}
DownloadLimits == {<<>>, <<100>>}

\* str.endswith of line 77, on a name held as its parts
endswith(name, suffix) == Len(name) > 0 /\ name[Len(name)] = suffix

\* the torrents handed to download_all_flac_headers (main, lines 142-153):
\* nothing is downloaded yet and the torrent is stopped
Torrents ==
    { [files |-> fs_, downloadLimit |-> IF l = <<>> THEN 0 ELSE l[1],
       downloadLimited |-> l # <<>>, status |-> "stopped"] :
        fs_ \in UNION { [1..n -> { File(nm, sz, 0, sel) :
                                     nm \in FileNames, sz \in FileSizes,
                                     sel \in BOOLEAN }] : n \in 1..MaxFiles },
        l \in DownloadLimits }

\* Torrent.download_limit (line 64): the limit, or None (<<>>) if not limited
download_limit(t) ==
    IF t.downloadLimited THEN <<t.downloadLimit>> ELSE <<>>

\* values of the lists sent as files_wanted and files_unwanted
FileIndex(i) == [type |-> "int", id |-> i]
IndexedFile(i, f) == [type |-> "pair", id |-> i, file |-> f]

\* list(filter(pred, enumerate(torrent_files))) of lines 65-72: the
\* elements are the (index, File) pairs that enumerate yields
RECURSIVE filter_enumerate(_, _, _)
filter_enumerate(files, sel, i) ==
    IF i > Len(files) THEN <<>>
    ELSE (IF files[i].selected = sel
          THEN <<IndexedFile(i - 1, files[i])>> ELSE <<>>)
         \o filter_enumerate(files, sel, i + 1)

original_files_unwanted == filter_enumerate(torrent_files, FALSE, 1)
original_files_wanted == filter_enumerate(torrent_files, TRUE, 1)

\* lines 81-82
wanted == <<FileIndex(file_id)>>

RECURSIVE range_except(_, _, _)
range_except(i, n, skip) ==
    IF i >= n THEN <<>>
    ELSE (IF i # skip THEN <<FileIndex(i)>> ELSE <<>>)
         \o range_except(i + 1, n, skip)

unwanted == range_except(0, Len(torrent_files), file_id)

\* lines 108-113
download_limit_args ==
    IF original_download_limit # <<>>
    THEN [downloadLimit |-> original_download_limit, downloadLimited |-> TRUE]
    ELSE [downloadLimit |-> <<>>, downloadLimited |-> FALSE]

\* The daemon's handling of a files-wanted or files-unwanted list: the
\* integers of the list are file indices, entries that are no integers are
\* passed over, and the empty list stands for all files.
setFileDLs(files, do_download, list) ==
    LET ids == IF Len(list) = 0
               THEN 0 .. (Len(files) - 1)
               ELSE { list[k].id :
                        k \in { j \in 1..Len(list) : list[j].type = "int" } }
    IN  [i \in 1..Len(files) |->
            IF (i - 1) \in ids
            THEN [files[i] EXCEPT !.selected = do_download]
            ELSE files[i]]

\* torrent-set as the daemon carries it out for client.change_torrent:
\* files-unwanted, then files-wanted, then the limit fields that were sent
torrent_set(t, limit_args, files_unwanted, files_wanted) ==
    [t EXCEPT
        !.files = setFileDLs(setFileDLs(t.files, FALSE, files_unwanted),
                             TRUE, files_wanted),
        !.downloadLimit = IF limit_args.downloadLimit = <<>>
                          THEN t.downloadLimit
                          ELSE limit_args.downloadLimit[1],
        !.downloadLimited = limit_args.downloadLimited]

\* the last two RPC calls, the newest last
Rpc(method, ok) ==
    LET call == [method |-> method, ok |-> ok]
    IN  IF Len(last_rpc) < 2 THEN Append(last_rpc, call)
        ELSE <<last_rpc[2], call>>

\* lines 76-78 and 106: next file of the loop; the others are skipped and
\* after the last one the function returns through the finally block
For ==
    /\ pc_dl = "for"
    /\ IF file_id >= Len(torrent_files)
       THEN pc_dl' = "finally" /\ file_id' = file_id
       ELSE IF ~endswith(torrent_files[file_id + 1].name, ".flac")
            THEN pc_dl' = "for" /\ file_id' = file_id + 1
            ELSE pc_dl' = "set" /\ file_id' = file_id
    /\ UNCHANGED <<transmission, torrent_files, original_download_limit,
                   latest_file_info, last_rpc, dl_exc>>
    /\ UNCHANGED match_vars

\* lines 83-87
ChangeTorrent ==
    /\ pc_dl = "set"
    /\ \E ok \in BOOLEAN :
        /\ last_rpc' = Rpc("change_torrent", ok)
        /\ IF ok
           THEN /\ transmission' =
                      torrent_set(transmission,
                                  [downloadLimit |-> <<TemporaryLimit>>,
                                   downloadLimited |-> TRUE],
                                  unwanted, wanted)
                /\ pc_dl' = "start"
                /\ dl_exc' = dl_exc
           ELSE /\ transmission' = transmission
                /\ pc_dl' = "finally"
                /\ dl_exc' = "TransmissionError"
    /\ UNCHANGED <<torrent_files, original_download_limit, file_id,
                   latest_file_info>>
    /\ UNCHANGED match_vars

\* lines 90 and 93
StartTorrent ==
    /\ pc_dl = "start"
    /\ \E ok \in BOOLEAN :
        /\ last_rpc' = Rpc("start_torrent", ok)
        /\ IF ok
           THEN /\ transmission' = [transmission EXCEPT !.status = "downloading"]
                /\ latest_file_info' = torrent_files[file_id + 1]
                /\ pc_dl' = "poll"
                /\ dl_exc' = dl_exc
           ELSE /\ transmission' = transmission
                /\ latest_file_info' = latest_file_info
                /\ pc_dl' = "finally"
                /\ dl_exc' = "TransmissionError"
    /\ UNCHANGED <<torrent_files, original_download_limit, file_id>>
    /\ UNCHANGED match_vars

\* lines 94-98: the test of the loop and, if it holds, one get_torrent
Poll ==
    /\ pc_dl = "poll"
    /\ IF latest_file_info.completed < HeaderBytes
       THEN \E ok \in BOOLEAN :
               /\ last_rpc' = Rpc("get_torrent", ok)
               /\ file_id' = file_id
               /\ IF ok
                  THEN /\ latest_file_info' = transmission.files[file_id + 1]
                       /\ pc_dl' = "sleep"
                       /\ dl_exc' = dl_exc
                  ELSE /\ latest_file_info' = latest_file_info
                       /\ pc_dl' = "finally"
                       /\ dl_exc' = "TransmissionError"
       ELSE /\ pc_dl' = "for"
            /\ file_id' = file_id + 1
            /\ UNCHANGED <<latest_file_info, last_rpc, dl_exc>>
    /\ UNCHANGED <<transmission, torrent_files, original_download_limit>>
    /\ UNCHANGED match_vars

\* line 99
Sleep ==
    /\ pc_dl = "sleep"
    /\ pc_dl' = "poll"
    /\ UNCHANGED <<transmission, torrent_files, original_download_limit,
                   file_id, latest_file_info, last_rpc, dl_exc>>
    /\ UNCHANGED match_vars

\* lines 102-104: Ctrl-C in the polling loop goes on to the next file
InterruptPoll ==
    /\ pc_dl \in {"poll", "sleep"}
    /\ pc_dl' = "for"
    /\ file_id' = file_id + 1
    /\ UNCHANGED <<transmission, torrent_files, original_download_limit,
                   latest_file_info, last_rpc, dl_exc>>
    /\ UNCHANGED match_vars

\* Ctrl-C in lines 76-90, outside the inner try: the exception leaves the
\* function through the finally block
Interrupt ==
    /\ pc_dl \in {"for", "set", "start"}
    /\ pc_dl' = "finally"
    /\ dl_exc' = "KeyboardInterrupt"
    /\ UNCHANGED <<transmission, torrent_files, original_download_limit,
                   file_id, latest_file_info, last_rpc>>
    /\ UNCHANGED match_vars

\* lines 108-119: if the call raises, line 120 is not reached
Restore ==
    /\ pc_dl = "finally"
    /\ \E ok \in BOOLEAN :
        /\ last_rpc' = Rpc("change_torrent", ok)
        /\ IF ok
           THEN /\ transmission' =
                      torrent_set(transmission, download_limit_args,
                                  original_files_unwanted,
                                  original_files_wanted)
                /\ pc_dl' = "stop"
                /\ dl_exc' = dl_exc
           ELSE /\ transmission' = transmission
                /\ pc_dl' = "raised"
                /\ dl_exc' = "TransmissionError"
    /\ UNCHANGED <<torrent_files, original_download_limit, file_id,
                   latest_file_info>>
    /\ UNCHANGED match_vars

\* line 120, then the return of line 106 or the pending exception
StopTorrent ==
    /\ pc_dl = "stop"
    /\ \E ok \in BOOLEAN :
        /\ last_rpc' = Rpc("stop_torrent", ok)
        /\ IF ok
           THEN /\ transmission' = [transmission EXCEPT !.status = "stopped"]
                /\ pc_dl' = IF dl_exc = None THEN "returned" ELSE "raised"
                /\ dl_exc' = dl_exc
           ELSE /\ transmission' = transmission
                /\ pc_dl' = "raised"
                /\ dl_exc' = "TransmissionError"
    /\ UNCHANGED <<torrent_files, original_download_limit, file_id,
                   latest_file_info>>
    /\ UNCHANGED match_vars

\* the daemon, while the torrent is started: more of a wanted file that is
\* not complete arrives, until the file is complete
Download ==
    /\ transmission.status = "downloading"
    /\ \E i \in 1..Len(transmission.files) :
        LET f == transmission.files[i]
            more == IF f.completed + PieceLength > f.size
                    THEN f.size ELSE f.completed + PieceLength
        IN  /\ f.selected
            /\ f.completed < f.size
            /\ transmission' =
                 [transmission EXCEPT !.files[i].completed = more]
    /\ UNCHANGED <<pc_dl, torrent_files, original_download_limit, file_id,
                   latest_file_info, last_rpc, dl_exc>>
    /\ UNCHANGED match_vars

\* the steps of the function that the interpreter takes by itself
DlProgram ==
    \/ For
    \/ ChangeTorrent
    \/ StartTorrent
    \/ Poll
    \/ Sleep
    \/ Restore
    \/ StopTorrent

DlNext ==
    \/ DlProgram
    \/ InterruptPoll
    \/ Interrupt
    \/ Download

\* lines 62-64 and 75, flac-match-headers.py not running
DlInit ==
    /\ args = [flac |-> None, flac_args |-> None, skip_track |-> {},
               jobs |-> 1]
    /\ installed = Installed(Absent, Absent, Absent)
    /\ fs = [p \in {} |-> Absent]
    /\ pc_main = "idle"
    /\ todo_inputs = {}
    /\ todo_headers = {}
    /\ trackno_to_input = <<>>
    /\ input_path = None
    /\ header_path = None
    /\ tasks = <<>>
    /\ main_err = None
    /\ main_msg = None
    /\ transmission \in Torrents
    /\ pc_dl = "for"
    /\ torrent_files = transmission.files
    /\ original_download_limit = download_limit(transmission)
    /\ file_id = 0
    /\ latest_file_info = File(<<>>, 0, 0, FALSE)
    /\ last_rpc = <<>>
    /\ dl_exc = None

SpecDownload == DlInit /\ [][DlNext]_vars

\* the interpreter goes on running and the daemon goes on downloading
SpecDownloadLive ==
    DlInit /\ [][DlNext]_vars /\ WF_vars(DlProgram) /\ WF_vars(Download)

\* download_all_flac_headers has returned or raised
Exited == pc_dl \in {"returned", "raised"}

\* the daemon holds the download limit the torrent came with, or none if it
\* came with none
LimitRestored ==
    /\ transmission.downloadLimited = (original_download_limit # <<>>)
    /\ original_download_limit # <<>>
         => transmission.downloadLimit = original_download_limit[1]

\* the daemon holds the file selection the torrent came with
SelectionRestored ==
    \A i \in 1..Len(torrent_files) :
        transmission.files[i].selected = torrent_files[i].selected

\* C21: on every exit of download_all_flac_headers (return, RPC exception,
\* interrupt outside the polling loop) the last two RPC calls are a
\* change_torrent followed by stop_torrent, and the torrent has its original
\* download limit (or none) and its original file selection again.
C21_RestoredOnEveryExit ==
    Exited =>
        /\ Len(last_rpc) = 2
        /\ last_rpc[1].method = "change_torrent"
        /\ last_rpc[2].method = "stop_torrent"
        /\ LimitRestored
        /\ SelectionRestored

\* the function is in the polling loop of lines 94-99
Polling == pc_dl \in {"poll", "sleep"}

\* C22: while the daemon keeps downloading the selected file until it is
\* complete, the polling loop entered for a .flac file is left again,
\* whatever the size of the file.
C22_PollingLoopTerminates == (pc_dl = "poll") ~> ~Polling
====
